---- MODULE Spec2Model ----
(***************************************************************************)
(* Model of the SQLite MCP server of src/src/server.ts: the six tools of   *)
(* startMcpServer (read_query, write_query, create_table, list_tables,     *)
(* describe_table, append_insight), the memo://insights resource, and      *)
(* SqliteDatabase (_executeQuery, _synthesizeMemo, insights).              *)
(*                                                                         *)
(* A statement text is a sequence of one-character strings, so that        *)
(* trim(), toUpperCase() and startsWith() are computed character by        *)
(* character as the handlers compute them.  Every await of a handler is a  *)
(* separate step.  The transport, which is not part of the sources, hands  *)
(* the handlers one tool call at a time; the memo resource handler has no  *)
(* await and runs at any time.  db.close() releases the connection it is   *)
(* called on.                                                              *)
(***************************************************************************)
EXTENDS Integers, Sequences, FiniteSets, TLC

\* Bounds of the model.
MaxRows == 1
MaxInsights == 2

---------------------------------------------------------------------------
\* Statement texts, character by character.

\* "SELECT"
kwSELECT ==
    <<"S", "E", "L", "E", "C", "T">>

\* "CREATE TABLE"
kwCREATE_TABLE ==
    <<"C", "R", "E", "A", "T", "E", " ", "T", "A", "B", "L", "E">>

\* "SELECT * FROM t"
sSelectT ==
    <<"S", "E", "L", "E", "C", "T", " ", "*", " ", "F", "R", "O", "M", " ", "t">>

\* "  select * from t\n"
sSelectLower ==
    <<" ", " ", "s", "e", "l", "e", "c", "t", " ", "*", " ", "f", "r", "o", "m", " ", "t", "\n">>

\* "\tSeLeCt 1"
sSelectOne ==
    <<"\t", "S", "e", "L", "e", "C", "t", " ", "1">>

\* "INSERT INTO t VALUES (1,'a')"
sInsert ==
    <<"I", "N", "S", "E", "R", "T", " ", "I", "N", "T", "O", " ", "t", " ", "V", "A", "L", "U", "E", "S", " ", "(", "1", ",", "'", "a", "'", ")">>

\* "DELETE FROM t"
sDelete ==
    <<"D", "E", "L", "E", "T", "E", " ", "F", "R", "O", "M", " ", "t">>

\* "DROP TABLE t"
sDrop ==
    <<"D", "R", "O", "P", " ", "T", "A", "B", "L", "E", " ", "t">>

\* "CREATE TABLE t (id INTEGER, name TEXT)"
sCreateT ==
    <<"C", "R", "E", "A", "T", "E", " ", "T", "A", "B", "L", "E", " ", "t", " ", "(", "i", "d", " ", "I", "N", "T", "E", "G", "E", "R", ",", " ", "n", "a", "m", "e", " ", "T", "E", "X", "T", ")">>

\* "CREATE TABLE IF NOT EXISTS t (id INTEGER, name TEXT)"
sCreateIfNot ==
    <<"C", "R", "E", "A", "T", "E", " ", "T", "A", "B", "L", "E", " ", "I", "F", " ", "N", "O", "T", " ", "E", "X", "I", "S", "T", "S", " ", "t", " ", "(", "i", "d", " ", "I", "N", "T", "E", "G", "E", "R", ",", " ", "n", "a", "m", "e", " ", "T", "E", "X", "T", ")">>

\* " create table u (x)"
sCreateULower ==
    <<" ", "c", "r", "e", "a", "t", "e", " ", "t", "a", "b", "l", "e", " ", "u", " ", "(", "x", ")">>

\* "CREATE  TABLE u (x)"
sCreateTwoSpaces ==
    <<"C", "R", "E", "A", "T", "E", " ", " ", "T", "A", "B", "L", "E", " ", "u", " ", "(", "x", ")">>

\* "CREATE TABLEAU"
sCreateBad ==
    <<"C", "R", "E", "A", "T", "E", " ", "T", "A", "B", "L", "E", "A", "U">>

\* "SELEC"
sSelec ==
    <<"S", "E", "L", "E", "C">>

\* ""
sEmpty ==
    <<>>

\* "SELECT name FROM sqlite_master WHERE type='table'"
sListTables ==
    <<"S", "E", "L", "E", "C", "T", " ", "n", "a", "m", "e", " ", "F", "R", "O", "M", " ", "s", "q", "l", "i", "t", "e", "_", "m", "a", "s", "t", "e", "r", " ", "W", "H", "E", "R", "E", " ", "t", "y", "p", "e", "=", "'", "t", "a", "b", "l", "e", "'">>

\* "PRAGMA table_info("
sPragmaOpen ==
    <<"P", "R", "A", "G", "M", "A", " ", "t", "a", "b", "l", "e", "_", "i", "n", "f", "o", "(">>

\* ")"
sPragmaClose ==
    <<")">>

\* "t"
nameT ==
    <<"t">>

\* "nope"
nameNope ==
    <<"n", "o", "p", "e">>

\* "t t"
nameBad ==
    <<"t", " ", "t">>

---------------------------------------------------------------------------
\* String.prototype.trim / toUpperCase / startsWith on character sequences.

LowerLetters ==
    <<"a", "b", "c", "d", "e", "f", "g", "h", "i", "j", "k", "l", "m",
      "n", "o", "p", "q", "r", "s", "t", "u", "v", "w", "x", "y", "z">>

UpperLetters ==
    <<"A", "B", "C", "D", "E", "F", "G", "H", "I", "J", "K", "L", "M",
      "N", "O", "P", "Q", "R", "S", "T", "U", "V", "W", "X", "Y", "Z">>

WhiteSpace ==
    {" ", "\t", "\n", "\r"}

\* The position of each lower-case letter in the alphabet.
LetterIndex ==
    [c \in {LowerLetters[i] : i \in 1..Len(LowerLetters)} |->
        CHOOSE i \in 1..Len(LowerLetters) : LowerLetters[i] = c]

UpperChar(c) ==
    IF c \in DOMAIN LetterIndex THEN UpperLetters[LetterIndex[c]] ELSE c

ToUpperCase(s) ==
    [i \in 1..Len(s) |-> UpperChar(s[i])]

RECURSIVE TrimStart(_)
TrimStart(s) ==
    IF s # <<>> /\ Head(s) \in WhiteSpace THEN TrimStart(Tail(s)) ELSE s

RECURSIVE TrimEnd(_)
TrimEnd(s) ==
    IF s # <<>> /\ s[Len(s)] \in WhiteSpace
    THEN TrimEnd(SubSeq(s, 1, Len(s) - 1))
    ELSE s

Trim(s) ==
    TrimEnd(TrimStart(s))

StartsWith(s, prefix) ==
    /\ Len(prefix) <= Len(s)
    /\ SubSeq(s, 1, Len(prefix)) = prefix

---------------------------------------------------------------------------
\* The prefix gates of the three statement tools.

\* The statement texts the callers of the model send.
Statements ==
    {sSelectT, sSelectLower, sSelectOne, sInsert, sDelete, sDrop, sCreateT,
     sCreateIfNot, sCreateULower, sCreateTwoSpaces, sCreateBad, sSelec, sEmpty}

\* query.trim().toUpperCase()
Normalize(query) ==
    ToUpperCase(Trim(query))

\* Normalize, computed once for each statement of the model.
NormalizedStatements ==
    [q \in Statements |-> Normalize(q)]

Normalized(query) ==
    IF query \in DOMAIN NormalizedStatements
    THEN NormalizedStatements[query]
    ELSE Normalize(query)

\* read_query with the condition of write_query (the negation lost).
ReadRejects_Unnegated(query) ==
    StartsWith(Normalized(query), kwSELECT)

\* read_query: if (!query.trim().toUpperCase().startsWith("SELECT")) reject
ReadRejects(query) ==
    ~StartsWith(Normalized(query), kwSELECT)

\* write_query without the trim().
WriteRejects_NoTrim(query) ==
    StartsWith(ToUpperCase(query), kwSELECT)

\* write_query rejecting CREATE TABLE statements as well.
WriteRejects_AlsoCreate(query) ==
    \/ StartsWith(Normalized(query), kwSELECT)
    \/ StartsWith(Normalized(query), kwCREATE_TABLE)

\* write_query: if (query.trim().toUpperCase().startsWith("SELECT")) reject
WriteRejects(query) ==
    StartsWith(Normalized(query), kwSELECT)

\* create_table testing the first keyword only.
CreateRejects_CreateOnly(query) ==
    ~StartsWith(Normalized(query), SubSeq(kwCREATE_TABLE, 1, 6))

\* create_table: if (!query.trim().toUpperCase().startsWith("CREATE TABLE")) reject
CreateRejects(query) ==
    ~StartsWith(Normalized(query), kwCREATE_TABLE)

---------------------------------------------------------------------------
\* The store behind db.prepare / stmt.all: tables in creation order, and the
\* number of rows of table t (every row is (1,'a')).

TableNames ==
    {"t", "u"}

\* The statements describe_table builds for the table names of the model.
sDescribeT ==
    sPragmaOpen \o nameT \o sPragmaClose

sDescribeNope ==
    sPragmaOpen \o nameNope \o sPragmaClose

\* What SQLite makes of the statement texts it can parse.
SqlTable ==
    [q \in {sSelectT, sSelectLower, sSelectOne, sInsert, sDelete, sDrop,
            sCreateT, sCreateIfNot, sCreateULower, sCreateTwoSpaces, sEmpty,
            sListTables, sDescribeT, sDescribeNope} |->
        CASE q \in {sSelectT, sSelectLower} -> [kind |-> "select", table |-> "t"]
          [] q = sSelectOne       -> [kind |-> "selectOne", table |-> ""]
          [] q = sInsert          -> [kind |-> "insert", table |-> "t"]
          [] q = sDelete          -> [kind |-> "delete", table |-> "t"]
          [] q = sDrop            -> [kind |-> "drop", table |-> "t"]
          [] q = sCreateT         -> [kind |-> "create", table |-> "t"]
          [] q = sCreateIfNot     -> [kind |-> "createIfNotExists", table |-> "t"]
          [] q \in {sCreateULower, sCreateTwoSpaces}
                                  -> [kind |-> "create", table |-> "u"]
          [] q = sEmpty           -> [kind |-> "empty", table |-> ""]
          [] q = sListTables      -> [kind |-> "listTables", table |-> ""]
          [] q = sDescribeT       -> [kind |-> "tableInfo", table |-> "t"]
          [] q = sDescribeNope    -> [kind |-> "tableInfo", table |-> "nope"]]

\* What SQLite makes of a statement text: any other text is a syntax error.
SqlMeaning(q) ==
    IF q \in DOMAIN SqlTable THEN SqlTable[q] ELSE [kind |-> "syntax", table |-> ""]

HasTable(st, name) ==
    \E i \in 1..Len(st.tables) : st.tables[i] = name

\* The fault db.prepare raises for a statement on a store ("" for none).
PrepareFault(q, st) ==
    LET m == SqlMeaning(q) IN
    CASE m.kind = "syntax" -> "SQLITE_ERROR: syntax error"
      [] m.kind \in {"select", "insert", "delete", "drop"} /\ ~HasTable(st, m.table)
             -> "SQLITE_ERROR: no such table: " \o m.table
      [] m.kind = "create" /\ HasTable(st, m.table)
             -> "SQLITE_ERROR: table " \o m.table \o " already exists"
      [] OTHER -> ""

RemoveTable(tables, name) ==
    SelectSeq(tables, LAMBDA x : x # name)

\* The store after stmt.all ran a prepared statement.
StoreAfter(q, st) ==
    LET m == SqlMeaning(q) IN
    CASE m.kind = "insert" -> [st EXCEPT !.rows = @ + 1]
      [] m.kind = "delete" -> [st EXCEPT !.rows = 0]
      [] m.kind = "drop" -> [tables |-> RemoveTable(st.tables, m.table), rows |-> 0]
      [] m.kind \in {"create", "createIfNotExists"} /\ ~HasTable(st, m.table)
             -> [st EXCEPT !.tables = Append(@, m.table)]
      [] OTHER -> st

ColumnsOf(name) ==
    IF name = "t"
    THEN <<"{\"cid\":0,\"name\":\"id\"}", "{\"cid\":1,\"name\":\"name\"}">>
    ELSE <<"{\"cid\":0,\"name\":\"x\"}">>

\* The rows stmt.all returns, each row as its JSON object text.
RowsOf(q, st) ==
    LET m == SqlMeaning(q) IN
    CASE m.kind = "select" -> [i \in 1..st.rows |-> "{\"id\":1,\"name\":\"a\"}"]
      [] m.kind = "selectOne" -> <<"{\"1\":1}">>
      [] m.kind = "listTables"
             -> [i \in 1..Len(st.tables) |-> "{\"name\":\"" \o st.tables[i] \o "\"}"]
      [] m.kind = "tableInfo" /\ HasTable(st, m.table) -> ColumnsOf(m.table)
      [] OTHER -> <<>>

RECURSIVE JoinComma(_)
JoinComma(rows) ==
    IF rows = <<>> THEN ""
    ELSE IF Len(rows) = 1 THEN rows[1]
    ELSE rows[1] \o "," \o JoinComma(Tail(rows))

\* JSON.stringify of a result set.
JsonStringify(rows) ==
    "[" \o JoinComma(rows) \o "]"

---------------------------------------------------------------------------
\* SqliteDatabase.insights and SqliteDatabase._synthesizeMemo.

\* "Sales grew 20%"
iSales ==
    <<"S", "a", "l", "e", "s", " ", "g", "r", "e", "w", " ", "2", "0", "%">>

\* "Churn dropped"
iChurn ==
    <<"C", "h", "u", "r", "n", " ", "d", "r", "o", "p", "p", "e", "d">>

\* ""
iEmpty ==
    <<>>

\* "No business insights have been discovered yet."
mSentinel ==
    <<"N", "o", " ", "b", "u", "s", "i", "n", "e", "s", "s", " ", "i", "n",
      "s", "i", "g", "h", "t", "s", " ", "h", "a", "v", "e", " ", "b", "e",
      "e", "n", " ", "d", "i", "s", "c", "o", "v", "e", "r", "e", "d", " ",
      "y", "e", "t", ".">>

\* " Business Intelligence Memo "
mTitle ==
    <<" ", "B", "u", "s", "i", "n", "e", "s", "s", " ", "I", "n", "t", "e",
      "l", "l", "i", "g", "e", "n", "c", "e", " ", "M", "e", "m", "o", " ">>

\* "Key Insights Discovered:\n\n"
mKeyInsights ==
    <<"K", "e", "y", " ", "I", "n", "s", "i", "g", "h", "t", "s", " ", "D",
      "i", "s", "c", "o", "v", "e", "r", "e", "d", ":", "\n", "\n">>

\* "- "
mBullet ==
    <<"-", " ">>

\* "\nSummary:\n"
mSummary ==
    <<"\n", "S", "u", "m", "m", "a", "r", "y", ":", "\n">>

\* "Analysis has revealed "
mRevealed ==
    <<"A", "n", "a", "l", "y", "s", "i", "s", " ", "h", "a", "s", " ", "r",
      "e", "v", "e", "a", "l", "e", "d", " ">>

\* " key business insights that suggest opportunities for strategic optimization and growth."
mSuggest ==
    <<" ", "k", "e", "y", " ", "b", "u", "s", "i", "n", "e", "s", "s", " ",
      "i", "n", "s", "i", "g", "h", "t", "s", " ", "t", "h", "a", "t", " ",
      "s", "u", "g", "g", "e", "s", "t", " ", "o", "p", "p", "o", "r", "t",
      "u", "n", "i", "t", "i", "e", "s", " ", "f", "o", "r", " ", "s", "t",
      "r", "a", "t", "e", "g", "i", "c", " ", "o", "p", "t", "i", "m", "i",
      "z", "a", "t", "i", "o", "n", " ", "a", "n", "d", " ", "g", "r", "o",
      "w", "t", "h", ".">>

InsightTexts ==
    {iEmpty, iSales, iChurn}

\* U+1F4CA, one character.
ChartEmoji ==
    <<"U+1F4CA">>

DigitChars ==
    <<"0", "1", "2", "3", "4", "5", "6", "7", "8", "9">>

RECURSIVE Digits(_)
\* The decimal text of a number, as a template literal renders it.
Digits(n) ==
    IF n < 10 THEN <<DigitChars[n + 1]>>
    ELSE Digits(n \div 10) \o <<DigitChars[(n % 10) + 1]>>

RECURSIVE JoinNewline(_)
JoinNewline(lines) ==
    IF lines = <<>> THEN <<>>
    ELSE IF Len(lines) = 1 THEN lines[1]
    ELSE lines[1] \o <<"\n">> \o JoinNewline(Tail(lines))

\* _synthesizeMemo with the summary written from the first insight on.
SynthesizeMemo_SummaryFromOne(ledger) ==
    IF Len(ledger) = 0
    THEN mSentinel
    ELSE ChartEmoji \o mTitle \o ChartEmoji \o <<"\n", "\n">>
         \o mKeyInsights
         \o JoinNewline([i \in 1..Len(ledger) |-> mBullet \o ledger[i]])
         \o (IF Len(ledger) >= 1
             THEN mSummary \o mRevealed \o Digits(Len(ledger)) \o mSuggest
             ELSE <<>>)

SynthesizeMemo(ledger) ==
    IF Len(ledger) = 0
    THEN mSentinel
    ELSE ChartEmoji \o mTitle \o ChartEmoji \o <<"\n", "\n">>
         \o mKeyInsights
         \o JoinNewline([i \in 1..Len(ledger) |-> mBullet \o ledger[i]])
         \o (IF Len(ledger) > 1
             THEN mSummary \o mRevealed \o Digits(Len(ledger)) \o mSuggest
             ELSE <<>>)

\* A _synthesizeMemo that reverses this.insights in place before rendering.
LedgerAfterMemo_Reversed(ledger) ==
    [i \in 1..Len(ledger) |-> ledger[Len(ledger) + 1 - i]]

\* _synthesizeMemo only reads this.insights.
LedgerAfterMemo(ledger) ==
    ledger

\* An append_insight that takes the insight back when the notification fails.
LedgerAfterNotifyFault_RolledBack(ledger) ==
    SubSeq(ledger, 1, Len(ledger) - 1)

\* append_insight has no catch around the notification: the push stays.
LedgerAfterNotifyFault(ledger) ==
    ledger

\* No memo was read.
NoMemo ==
    <<>>

\* The URI under which the memo resource is registered.
MemoResource ==
    "memo://insights"

\* The resource named in the notifications/resources/updated notification.
NotifiedResource ==
    "memo://insight"

\* insights.unshift in the place of push.
Push_Front(ledger, insight) ==
    <<insight>> \o ledger

\* insights.push with the new entry replacing the list.
Push_Replace(ledger, insight) ==
    <<insight>>

\* db.insights.push(insight)
Push(ledger, insight) ==
    Append(ledger, insight)

---------------------------------------------------------------------------
\* What a handler hands back: a { content, isError } envelope, or an
\* exception leaving the handler.

Envelope(isError, text) ==
    [kind |-> "envelope", isError |-> isError, text |-> text]

Thrown(message) ==
    [kind |-> "thrown", text |-> message]

NoOutcome ==
    [kind |-> "none"]

RECURSIVE Text(_)
\* A character sequence as one string (template-literal interpolation).
Text(s) ==
    IF s = <<>> THEN "" ELSE Head(s) \o Text(Tail(s))

\* read_query and write_query await _executeQuery outside any try.
ReadOnFault(message) ==
    Thrown(message)

WriteOnFault(message) ==
    Thrown(message)

\* create_table: the first await db._executeQuery(query) precedes the try.
CreateFirstOnFault(message) ==
    Thrown(message)

\* create_table: the second one is inside try / catch.
CreateSecondOnFault(message) ==
    Envelope(TRUE, "Error creating table: " \o message)

\* list_tables without its try / catch.
ListTablesOnFault_NoCatch(message) ==
    Thrown(message)

ListTablesOnFault(message) ==
    Envelope(TRUE, "Error listing tables: " \o message)

DescribeTableOnFault(message) ==
    Envelope(TRUE, "Error describing table: " \o message)

\* A finally that is skipped when the try block faulted.
ClosesAfter_SuccessOnly(faulted) ==
    ~faulted

\* _executeQuery: finally { await db.close(); } runs on both paths.
ClosesAfter(faulted) ==
    TRUE

---------------------------------------------------------------------------
\* State.

VARIABLES
    store,        \* the database file: [tables, rows]
    insights,     \* SqliteDatabase.insights
    op,           \* the tool of the call in flight, or of the last call
    arg,          \* its argument (query, table_name or insight)
    stage,        \* where its handler is: idle, exec1, exec2, notify, done
    ex,           \* where _executeQuery is: none, open, prepare, all, finalize, close
    err,          \* the fault caught by _executeQuery's catch, "" for none
    result,       \* the rows stmt.all returned
    outcome,      \* what the handler handed back
    fault,        \* the fault _executeQuery threw into the handler, "" for none
    conns,        \* connections opened by _executeQuery and not closed
    nExec,        \* _executeQuery invocations of this call
    nOpen,        \* connections opened by this call
    nRun,         \* stmt.all invocations of this call
    storeAtCall,  \* the store when this call began
    ledgerAtCall, \* insights when this call began
    lastMemo,     \* the text of the last memo://insights read since the
                  \* last append_insight, NoMemo if there was none
    appendCalls,  \* the insight arguments of the append_insight calls so far
    notified,     \* the resource named by the notification of this call
    phase,        \* where main is: starting, connecting, serving, exited
    initConn,     \* the connection of _initDatabase: none, pending, open,
                  \* closed, failed
    exitCode      \* the exit status of the process, -1 while it runs

vars ==
    <<store, insights, op, arg, stage, ex, err, result, outcome, fault, conns,
      nExec, nOpen, nRun, storeAtCall, ledgerAtCall, lastMemo, appendCalls,
      notified, phase, initConn, exitCode>>

\* The state of the process around the handlers.
processVars ==
    <<phase, initConn, exitCode>>

TableNameArgs ==
    {nameT, nameNope, nameBad}

\* The handlers and the database object right after startMcpServer.
HandlersInit ==
    /\ store = [tables |-> <<>>, rows |-> 0]
    /\ insights = <<>>
    /\ op = "none"
    /\ arg = <<>>
    /\ stage = "idle"
    /\ ex = "none"
    /\ err = ""
    /\ result = <<>>
    /\ outcome = NoOutcome
    /\ fault = ""
    /\ conns = 0
    /\ nExec = 0
    /\ nOpen = 0
    /\ nRun = 0
    /\ storeAtCall = [tables |-> <<>>, rows |-> 0]
    /\ ledgerAtCall = <<>>
    /\ lastMemo = NoMemo
    /\ appendCalls = <<>>
    /\ notified = ""

\* The server is connected and the connection of _initDatabase is closed.
Init ==
    /\ HandlersInit
    /\ phase = "serving"
    /\ initConn = "closed"
    /\ exitCode = -1

\* main is entered.
StartupInit ==
    /\ HandlersInit
    /\ phase = "starting"
    /\ initConn = "none"
    /\ exitCode = -1

\* server.connect(transport) has resolved and the process runs.
Serving ==
    phase = "serving"

\* No call is in flight.
Idle ==
    stage \in {"idle", "done"}

\* The row counter stays within MaxRows.
CanRun(q) ==
    SqlMeaning(q).kind = "insert" => store.rows < MaxRows

\* The statement the call in flight hands to _executeQuery.
ExecQuery ==
    CASE op = "list_tables" -> sListTables
      [] op = "describe_table" -> sPragmaOpen \o arg \o sPragmaClose
      [] OTHER -> arg

BeginCall(o, a) ==
    /\ Serving
    /\ Idle
    /\ op' = o
    /\ arg' = a
    /\ err' = ""
    /\ result' = <<>>
    /\ fault' = ""
    /\ nOpen' = 0
    /\ nRun' = 0
    /\ storeAtCall' = store
    /\ ledgerAtCall' = insights
    /\ notified' = ""
    /\ UNCHANGED <<store, conns, processVars>>

\* The handler returns before any await.
Reject(o, a, text) ==
    /\ BeginCall(o, a)
    /\ stage' = "done"
    /\ ex' = "none"
    /\ nExec' = 0
    /\ outcome' = Envelope(TRUE, text)
    /\ UNCHANGED <<insights, lastMemo, appendCalls>>

\* The handler calls _executeQuery and suspends at its first await.
Enter(o, a) ==
    /\ BeginCall(o, a)
    /\ stage' = "exec1"
    /\ ex' = "open"
    /\ nExec' = 1
    /\ outcome' = NoOutcome
    /\ UNCHANGED <<insights, lastMemo, appendCalls>>

ReadQuery(query) ==
    /\ CanRun(query)
    /\ IF ReadRejects(query)
       THEN Reject("read_query", query, "Only SELECT queries are allowed for read_query")
       ELSE Enter("read_query", query)

WriteQuery(query) ==
    /\ CanRun(query)
    /\ IF WriteRejects(query)
       THEN Reject("write_query", query, "SELECT queries are not allowed for write_query")
       ELSE Enter("write_query", query)

CreateTable(query) ==
    /\ CanRun(query)
    /\ IF CreateRejects(query)
       THEN Reject("create_table", query, "Only CREATE TABLE statements are allowed")
       ELSE Enter("create_table", query)

ListTables ==
    Enter("list_tables", <<>>)

DescribeTable(table_name) ==
    Enter("describe_table", table_name)

\* What the handler in flight does with a fault thrown by _executeQuery.
FaultOutcome(message) ==
    CASE op = "read_query" -> ReadOnFault(message)
      [] op = "write_query" -> WriteOnFault(message)
      [] op = "create_table" /\ stage = "exec1" -> CreateFirstOnFault(message)
      [] op = "create_table" /\ stage = "exec2" -> CreateSecondOnFault(message)
      [] op = "list_tables" -> ListTablesOnFault(message)
      [] op = "describe_table" -> DescribeTableOnFault(message)

\* What the handler in flight returns once its last _executeQuery returned.
ReturnOutcome(rows) ==
    IF op = "create_table"
    THEN Envelope(FALSE, "Table created successfully: " \o Text(arg))
    ELSE Envelope(FALSE, JsonStringify(rows))

Finish(o) ==
    /\ stage' = "done"
    /\ ex' = "none"
    /\ err' = ""
    /\ result' = <<>>
    /\ outcome' = o
    /\ UNCHANGED nExec

\* _executeQuery throws into the handler.
Raise(message) ==
    /\ Finish(FaultOutcome(message))
    /\ fault' = message

\* _executeQuery returns into the handler; create_table then calls it again.
Return(rows) ==
    IF op = "create_table" /\ stage = "exec1"
    THEN /\ stage' = "exec2"
         /\ ex' = "open"
         /\ err' = ""
         /\ result' = <<>>
         /\ nExec' = nExec + 1
         /\ UNCHANGED <<outcome, fault>>
    ELSE Finish(ReturnOutcome(rows)) /\ UNCHANGED fault

---------------------------------------------------------------------------
\* SqliteDatabase._executeQuery, one step per await.

CantOpen ==
    "SQLITE_CANTOPEN: unable to open database file"

Busy ==
    "SQLITE_BUSY: database is locked"

IoError ==
    "SQLITE_IOERR: disk I/O error"

\* const db = await open({...}): before the try, so a fault leaves directly.
ExOpen ==
    /\ Serving
    /\ ex = "open"
    /\ UNCHANGED <<appendCalls, notified, processVars>>
    /\ \/ /\ conns' = conns + 1
          /\ nOpen' = nOpen + 1
          /\ ex' = "prepare"
          /\ UNCHANGED <<stage, err, result, outcome, fault, nExec>>
       \/ /\ Raise(CantOpen)
          /\ UNCHANGED <<conns, nOpen>>
    /\ UNCHANGED <<store, insights, op, arg, nRun, storeAtCall, ledgerAtCall, lastMemo>>

\* const stmt = await db.prepare(query)
ExPrepare ==
    /\ Serving
    /\ ex = "prepare"
    /\ UNCHANGED <<appendCalls, notified, processVars>>
    /\ \E message \in {PrepareFault(ExecQuery, store), Busy} :
          IF message = ""
          THEN ex' = "all" /\ err' = ""
          ELSE ex' = "close" /\ err' = message
    /\ UNCHANGED <<store, insights, op, arg, stage, result, outcome, fault,
                   conns, nExec, nOpen, nRun, storeAtCall, ledgerAtCall, lastMemo>>

\* const result = await stmt.all(params)
ExAll ==
    /\ Serving
    /\ ex = "all"
    /\ UNCHANGED <<appendCalls, notified, processVars>>
    /\ nRun' = nRun + 1
    /\ \/ /\ store' = StoreAfter(ExecQuery, store)
          /\ result' = RowsOf(ExecQuery, store)
          /\ ex' = "finalize"
          /\ err' = ""
       \/ /\ ex' = "close"
          /\ err' = IoError
          /\ UNCHANGED <<store, result>>
    /\ UNCHANGED <<insights, op, arg, stage, outcome, fault, conns, nExec,
                   nOpen, storeAtCall, ledgerAtCall, lastMemo>>

\* await stmt.finalize()
ExFinalize ==
    /\ Serving
    /\ ex = "finalize"
    /\ UNCHANGED <<appendCalls, notified, processVars>>
    /\ ex' = "close"
    /\ \/ err' = ""
       \/ err' = IoError
    /\ UNCHANGED <<store, insights, op, arg, stage, result, outcome, fault,
                   conns, nExec, nOpen, nRun, storeAtCall, ledgerAtCall, lastMemo>>

\* finally { await db.close(); } and then the return, or the rethrow of catch.
ExClose ==
    /\ Serving
    /\ ex = "close"
    /\ UNCHANGED <<appendCalls, notified, processVars>>
    /\ conns' = IF ClosesAfter(err # "") THEN conns - 1 ELSE conns
    /\ IF err = "" THEN Return(result) ELSE Raise(err)
    /\ UNCHANGED <<store, insights, op, arg, nOpen, nRun, storeAtCall,
                   ledgerAtCall, lastMemo>>

---------------------------------------------------------------------------
\* append_insight and the memo://insights resource.

\* db.insights.push(insight); db._synthesizeMemo(); then the await of
\* server.server.notification(...).
AppendInsight(insight) ==
    /\ Len(insights) < MaxInsights
    /\ BeginCall("append_insight", insight)
    /\ insights' = LedgerAfterMemo(Push(insights, insight))
    /\ appendCalls' = Append(appendCalls, insight)
    /\ lastMemo' = NoMemo
    /\ stage' = "notify"
    /\ ex' = "none"
    /\ nExec' = 0
    /\ outcome' = NoOutcome

\* The notification resolves, or rejects (no try around it).
Notify ==
    /\ Serving
    /\ stage = "notify"
    /\ UNCHANGED <<appendCalls, processVars>>
    /\ \/ /\ Finish(Envelope(FALSE, "Insight added to memo"))
          /\ notified' = NotifiedResource
          /\ UNCHANGED insights
       \/ /\ Finish(Thrown("Not connected"))
          /\ insights' = LedgerAfterNotifyFault(insights)
          /\ UNCHANGED notified
    /\ UNCHANGED <<store, op, arg, fault, conns, nOpen, nRun, storeAtCall,
                   ledgerAtCall, lastMemo>>

\* The resource handler: text: db._synthesizeMemo(). It has no await.
ReadMemo ==
    /\ Serving
    /\ lastMemo' = SynthesizeMemo(insights)
    /\ insights' = LedgerAfterMemo(insights)
    /\ UNCHANGED <<appendCalls, notified, processVars>>
    /\ UNCHANGED <<store, op, arg, stage, ex, err, result, outcome,
                   fault, conns, nExec, nOpen, nRun, storeAtCall, ledgerAtCall>>

Next ==
    \/ \E query \in Statements : ReadQuery(query)
    \/ \E query \in Statements : WriteQuery(query)
    \/ \E query \in Statements : CreateTable(query)
    \/ ListTables
    \/ \E table_name \in TableNameArgs : DescribeTable(table_name)
    \/ \E insight \in InsightTexts : AppendInsight(insight)
    \/ Notify
    \/ ReadMemo
    \/ ExOpen
    \/ ExPrepare
    \/ ExAll
    \/ ExFinalize
    \/ ExClose

Spec ==
    Init /\ [][Next]_vars

---------------------------------------------------------------------------
\* main, the SqliteDatabase constructor and _initDatabase.

handlerVars ==
    <<store, insights, op, arg, stage, ex, err, result, outcome, fault, conns,
      nExec, nOpen, nRun, storeAtCall, ledgerAtCall, lastMemo, appendCalls,
      notified>>

\* process.exit(1) in the catch of main, or the exit of an unhandled rejection.
ExitWith(code) ==
    /\ phase' = "exited"
    /\ exitCode' = code

\* startMcpServer: new SqliteDatabase(dbPath) resolves the path, creates the
\* directory and calls this._initDatabase() without awaiting it; a throw of
\* mkdirSync reaches the catch of main.
Construct ==
    /\ phase = "starting"
    /\ \/ /\ phase' = "connecting"
          /\ initConn' = "pending"
          /\ UNCHANGED exitCode
       \/ /\ ExitWith(1)
          /\ UNCHANGED initConn
    /\ UNCHANGED handlerVars

\* await server.connect(transport): resolves, or rejects into the catch.
Connect ==
    /\ phase = "connecting"
    /\ \/ phase' = "serving" /\ UNCHANGED exitCode
       \/ ExitWith(1)
    /\ UNCHANGED <<handlerVars, initConn>>

\* _initDatabase: const db = await open({...}). Nothing awaits or catches
\* the promise of _initDatabase: its rejection ends the process.
InitOpen ==
    /\ phase \in {"connecting", "serving"}
    /\ initConn = "pending"
    /\ \/ /\ initConn' = "open"
          /\ UNCHANGED <<phase, exitCode>>
       \/ /\ initConn' = "failed"
          /\ ExitWith(1)
    /\ UNCHANGED handlerVars

\* _initDatabase: await db.close()
InitClose ==
    /\ phase \in {"connecting", "serving"}
    /\ initConn = "open"
    /\ initConn' = "closed"
    /\ UNCHANGED <<handlerVars, phase, exitCode>>

\* The transport disconnects and nothing is pending: the process ends.
Disconnect ==
    /\ phase = "serving"
    /\ Idle
    /\ initConn = "closed"
    /\ ExitWith(0)
    /\ UNCHANGED <<handlerVars, initConn>>

StartupNext ==
    \/ Construct
    \/ Connect
    \/ InitOpen
    \/ InitClose
    \/ Disconnect
    \/ Next

StartupSpec ==
    StartupInit /\ [][StartupNext]_vars

---------------------------------------------------------------------------
\* Properties.

\* The call in flight, or the last call, was of this tool.
CallOf(tool) ==
    op = tool /\ stage # "idle"

\* The last call has returned to its caller.
Done(tool) ==
    op = tool /\ stage = "done"

IsErrorEnvelope ==
    outcome.kind = "envelope" /\ outcome.isError

IsOkEnvelope ==
    outcome.kind = "envelope" /\ ~outcome.isError

\* The trimmed, upper-cased text of the argument starts with the keyword.
ArgStartsWith(keyword) ==
    StartsWith(ToUpperCase(Trim(arg)), keyword)

\* C1: read_query on a statement whose trimmed, upper-cased text does not
\* start with "SELECT" returns isError=true at once: it opens no connection,
\* invokes no executor, runs no statement and leaves the store as it was.
C1_ReadRejectsNonSelect ==
    (CallOf("read_query") /\ ~ArgStartsWith(kwSELECT)) =>
        /\ stage = "done"
        /\ IsErrorEnvelope
        /\ nExec = 0 /\ nOpen = 0 /\ nRun = 0 /\ conns = 0
        /\ store = storeAtCall

\* read_query of the INSERT of scenario 3 on an existing, empty table t was
\* rejected and t is still empty.
C1_Witness ==
    /\ Done("read_query") /\ arg = sInsert
    /\ IsErrorEnvelope
    /\ HasTable(store, "t") /\ store.rows = 0

\* C2: write_query on a statement whose trimmed, upper-cased text starts with
\* "SELECT", in any letter case and with any surrounding white space, returns
\* isError=true at once: no connection opened, no statement executed.
C2_WriteRejectsSelect ==
    (CallOf("write_query") /\ ArgStartsWith(kwSELECT)) =>
        /\ stage = "done"
        /\ IsErrorEnvelope
        /\ nExec = 0 /\ nOpen = 0 /\ nRun = 0 /\ conns = 0

\* write_query of a lower-case select with leading and trailing white space
\* was rejected.
C2_Witness ==
    /\ Done("write_query") /\ arg = sSelectLower
    /\ IsErrorEnvelope /\ nOpen = 0

\* C3: create_table on a statement whose trimmed, upper-cased text does not
\* start with "CREATE TABLE" returns isError=true and executes nothing
\* against the store.
C3_CreateRejectsOther ==
    (CallOf("create_table") /\ ~ArgStartsWith(kwCREATE_TABLE)) =>
        /\ stage = "done"
        /\ IsErrorEnvelope
        /\ nExec = 0 /\ nOpen = 0 /\ nRun = 0
        /\ store = storeAtCall

\* create_table of "CREATE  TABLE u (x)" (two spaces: valid SQL, wrong
\* prefix) was rejected and u was not created.
C3_Witness ==
    /\ Done("create_table") /\ arg = sCreateTwoSpaces
    /\ IsErrorEnvelope
    /\ ~HasTable(store, "u")

\* The faults of the environment, as opposed to those of the statement.
EnvFaults ==
    {CantOpen, Busy, IoError}

\* JSON.stringify of the sqlite_master rows of a store.
TableListText(st) ==
    JsonStringify([i \in 1..Len(st.tables) |-> "{\"name\":\"" \o st.tables[i] \o "\"}"])

\* C4: from a store without table t, create_table with a valid plain
\* CREATE TABLE t (...) returns isError=false (unless the environment
\* faulted) and leaves t in the store, and a list_tables that then runs
\* without fault returns the tables of the store, t among them.
C4_CreateThenList ==
    /\ ( /\ Done("create_table")
         /\ ArgStartsWith(kwCREATE_TABLE)
         /\ SqlMeaning(arg) = [kind |-> "create", table |-> "t"]
         /\ ~HasTable(storeAtCall, "t")
         /\ fault \notin EnvFaults )
       => (IsOkEnvelope /\ HasTable(store, "t"))
    /\ ( /\ Done("list_tables")
         /\ HasTable(storeAtCall, "t")
         /\ fault = "" )
       => (IsOkEnvelope /\ outcome.text = TableListText(storeAtCall))

\* C5: a create_table call whose statement passes the prefix check invokes
\* the executor exactly once, so it opens at most one connection and runs
\* the statement at most once.
C5_CreateExecutesOnce ==
    (Done("create_table") /\ ArgStartsWith(kwCREATE_TABLE)) =>
        (nExec = 1 /\ nOpen <= 1 /\ nRun <= 1)

\* C6: a create_table call whose statement passes the prefix check never
\* throws: a fault of the executor comes back as an isError=true envelope
\* carrying the fault's message.
C6_CreateFaultsAreEnvelopes ==
    (Done("create_table") /\ ArgStartsWith(kwCREATE_TABLE)) =>
        /\ outcome.kind = "envelope"
        /\ fault # "" => (outcome.isError
                          /\ outcome.text = "Error creating table: " \o fault)

\* C7: a read_query or write_query call whose statement passes the prefix
\* check and whose executor faults ends in an isError=true envelope, not in
\* an exception leaving the handler.
C7_ReadWriteFaultsAreEnvelopes ==
    ((Done("read_query") \/ Done("write_query")) /\ fault # "") =>
        IsErrorEnvelope

\* C8: list_tables and describe_table never throw: a fault of the executor
\* (a failed open included) gives an isError=true envelope with the fault's
\* message, and a run without fault gives isError=false.
C8_ListDescribeNeverThrow ==
    (Done("list_tables") \/ Done("describe_table")) =>
        /\ outcome.kind = "envelope"
        /\ outcome.isError <=> (fault # "")
        /\ fault # "" =>
             outcome.text = (IF op = "list_tables"
                             THEN "Error listing tables: "
                             ELSE "Error describing table: ") \o fault

\* list_tables whose connection could not be opened returned an isError=true
\* envelope.
C8_Witness ==
    /\ Done("list_tables")
    /\ fault = CantOpen /\ nOpen = 0
    /\ IsErrorEnvelope

\* C9: a connection opened by _executeQuery is closed before that invocation
\* returns or throws: outside an invocation's try block, and so whenever no
\* call is in flight, no executor-opened connection is open.
C9_ConnectionsClosed ==
    /\ conns \in {0, 1}
    /\ ex \in {"none", "open"} => conns = 0
    /\ Idle => conns = 0

\* write_query whose stmt.all faulted (finalize skipped) has returned, and
\* the connection it opened is closed.
C9_Witness ==
    /\ Done("write_query")
    /\ nOpen = 1 /\ nRun = 1 /\ fault = IoError
    /\ conns = 0

\* A step in which an append_insight call begins.
AppendBegins ==
    stage # "notify" /\ stage' = "notify"

LedgerStep ==
    /\ Len(insights') >= Len(insights)
    /\ AppendBegins => Len(insights') = Len(insights) + 1
    /\ ~AppendBegins => insights' = insights
    /\ (op' = "append_insight" /\ stage' = "done"
        /\ outcome'.kind = "envelope" /\ ~outcome'.isError)
       => Len(insights') = Len(ledgerAtCall') + 1

\* C10: the Ledger never gets shorter; it grows by exactly 1 in each
\* append_insight call, and no step of read_query, write_query,
\* create_table, list_tables, describe_table or of a memo read changes it.
C10_LedgerGrowsByAppendOnly ==
    [][LedgerStep]_vars

\* A second append_insight call has succeeded and the Ledger holds 2 entries.
C10_Witness ==
    /\ Done("append_insight") /\ IsOkEnvelope
    /\ Len(ledgerAtCall) = 1 /\ Len(insights) = 2

\* s is an initial segment of t.
IsPrefix(s, t) ==
    Len(s) <= Len(t) /\ SubSeq(t, 1, Len(s)) = s

\* C11: the Ledger is the sequence of the insight texts passed to the
\* append_insight calls so far, in call order, nothing modified, removed,
\* reordered or deduplicated; so the Ledger of an earlier time is a prefix
\* of the Ledger of a later time.
C11_LedgerIsCallHistory ==
    /\ insights = appendCalls
    /\ IsPrefix(ledgerAtCall, insights)

\* The same text was appended twice and the Ledger holds it twice.
C11_Witness ==
    /\ Done("append_insight")
    /\ Len(insights) = 2 /\ insights[1] = iChurn /\ insights[2] = iChurn

RECURSIVE Lines(_)
\* The lines of a text: text.split("\n").
Lines(s) ==
    LET breaks == {i \in 1..Len(s) : s[i] = "\n"}
    IN  IF breaks = {} THEN <<s>>
        ELSE LET first == CHOOSE i \in breaks : \A j \in breaks : i <= j
             IN  <<SubSeq(s, 1, first - 1)>> \o Lines(SubSeq(s, first + 1, Len(s)))

\* The lines of a memo that are bullets.
BulletLines(memo) ==
    SelectSeq(Lines(memo), LAMBDA line : StartsWith(line, mBullet))

\* The lines of a memo that follow a "Summary:" line.
SummaryLines(memo) ==
    LET lines == Lines(memo)
    IN  SelectSeq([i \in 1..Len(lines) |->
                      IF i > 1 /\ lines[i - 1] = SubSeq(mSummary, 2, Len(mSummary) - 1)
                      THEN lines[i] ELSE <<>>],
                  LAMBDA line : line # <<>>)

\* C12: a memo read on a Ledger of length n returns the fixed sentinel when
\* n = 0; when n >= 1, exactly n bullet lines "- <text>" in Ledger order;
\* and a summary section, stating the count n, if and only if n > 1.
C12_MemoShape ==
    lastMemo # NoMemo =>
        LET n == Len(insights) IN
        /\ n = 0 => lastMemo = mSentinel
        /\ n >= 1 => BulletLines(lastMemo) = [i \in 1..n |-> mBullet \o insights[i]]
        /\ n <= 1 => SummaryLines(lastMemo) = <<>>
        /\ n > 1 => /\ Len(SummaryLines(lastMemo)) = 1
                    /\ StartsWith(SummaryLines(lastMemo)[1],
                                  mRevealed \o Digits(n) \o <<" ">>)

\* The memo of scenario 4 was read: two insights, two bullets, a summary.
C12_Witness ==
    /\ lastMemo # NoMemo
    /\ insights = <<iSales, iChurn>>
    /\ Len(BulletLines(lastMemo)) = 2
    /\ Len(SummaryLines(lastMemo)) = 1

MemoStep ==
    /\ (lastMemo # NoMemo /\ lastMemo' # NoMemo) => lastMemo' = lastMemo
    /\ lastMemo' # NoMemo => insights' = insights

\* C13: memo synthesis has no side effect: all memo reads between two
\* append_insight calls return the same text, whatever other tools run in
\* between, and no memo read changes the Ledger.
C13_MemoReadsAgree ==
    [][MemoStep]_vars

\* A memo was read on a Ledger of two insights and, with no append since, a
\* write_query call has changed the store.
C13_Witness ==
    /\ lastMemo # NoMemo /\ Len(insights) = 2
    /\ Done("write_query") /\ store # storeAtCall

\* C14: the resource-updated notification of an append_insight call names
\* the URI under which the memo resource is registered.
C14_NotifiesMemoResource ==
    (CallOf("append_insight") /\ notified # "") => notified = MemoResource

\* A tool call has begun store work: it is inside _executeQuery or holds a
\* connection.
StoreWorkBegun ==
    ex # "none" \/ conns > 0

\* C15: no tool call begins store work while the startup connection of
\* _initDatabase is still pending or open.
C15_StartupConnectionFirst ==
    initConn \in {"pending", "open"} => ~StoreWorkBegun

\* C16: if startup fails (directory not created, server not connected,
\* store not opened) the process has exited with a non-zero status without
\* having served a tool call; and a process that exited with status 0 had
\* completed its startup.
C16_StartupFailureExits ==
    /\ initConn = "failed" => (phase = "exited" /\ exitCode # 0 /\ op = "none")
    /\ (phase = "exited" /\ exitCode # 0) => op = "none"
    /\ (phase = "exited" /\ exitCode = 0) => initConn = "closed"

\* C17: every entry of the Ledger is a non-empty text: append_insight with
\* an empty insight adds no entry.
C17_EntriesNonEmpty ==
    \A i \in 1..Len(insights) : insights[i] # iEmpty

\* The call in flight or last returned was passed to the executor.
Accepted ==
    nExec >= 1

\* The first n characters of a text.
Leading(text, n) ==
    SubSeq(text, 1, IF Len(text) < n THEN Len(text) ELSE n)

\* C18: the gates of read_query and write_query are complements: a statement
\* is passed to the executor by read_query exactly when write_query rejects
\* it, and by write_query exactly when read_query rejects it; a statement
\* create_table passes to the executor is one write_query accepts and
\* read_query rejects; and two statements whose trimmed, upper-cased texts
\* start alike get the same decisions.
C18_GatesAreComplements ==
    /\ CallOf("read_query") => (Accepted <=> WriteRejects(arg))
    /\ CallOf("write_query") => (Accepted <=> ReadRejects(arg))
    /\ (CallOf("create_table") /\ Accepted) =>
            (~WriteRejects(arg) /\ ReadRejects(arg))
    /\ \A s \in Statements : ReadRejects(s) # WriteRejects(s)
    /\ \A s \in Statements : ~CreateRejects(s) => (~WriteRejects(s) /\ ReadRejects(s))
    /\ \A s \in Statements :
          (CallOf("read_query")
             /\ Leading(Normalized(s), Len(kwSELECT))
                  = Leading(Normalized(arg), Len(kwSELECT)))
              => (ReadRejects(s) <=> ~Accepted)
    /\ \A s \in Statements :
          (CallOf("write_query")
             /\ Leading(Normalized(s), Len(kwSELECT))
                  = Leading(Normalized(arg), Len(kwSELECT)))
              => (WriteRejects(s) <=> ~Accepted)
    /\ \A s \in Statements :
          (CallOf("create_table")
             /\ Leading(Normalized(s), Len(kwCREATE_TABLE))
                  = Leading(Normalized(arg), Len(kwCREATE_TABLE)))
              => (CreateRejects(s) <=> ~Accepted)

\* create_table passed a lower-case "create table" with a leading blank to
\* the executor.
C18_Witness ==
    /\ CallOf("create_table") /\ arg = sCreateULower
    /\ Accepted
    /\ ~WriteRejects(arg) /\ ReadRejects(arg)

\* The last line of the memo that is a bullet.
LastBullet(memo) ==
    BulletLines(memo)[Len(BulletLines(memo))]

\* C19: from the first await of an append_insight call on (the notification
\* pending, emitted or failed; the acknowledgment returned or not) the Ledger
\* is the Ledger at the call followed by the insight, and a memo read since
\* then ends its list with the insight; this also when the notification failed.
C19_AppendedBeforeNotified ==
    CallOf("append_insight") =>
        /\ insights = Append(ledgerAtCall, arg)
        /\ lastMemo # NoMemo =>
              /\ BulletLines(lastMemo) # <<>>
              /\ LastBullet(lastMemo) = mBullet \o arg

\* The notification of the second append_insight failed; the insight is in
\* the Ledger and in the memo read afterwards.
C19_Witness ==
    /\ Done("append_insight") /\ outcome.kind = "thrown"
    /\ notified = ""
    /\ insights = <<iSales, iChurn>> /\ arg = iChurn
    /\ lastMemo # NoMemo

====
